---- MODULE Spec2Model ----
(***************************************************************************)
(* A model of the sparse Merkle sum tree (SMST) of zorjak/smt: the sum     *)
(* tree wrapper of smst.go and the sum proofs (sanity checks, verifier,    *)
(* compaction) of the sum-proof file.                                      *)
(*                                                                         *)
(* Byte strings are sequences of atoms [b, h].  A plain byte n is the atom *)
(* [b |-> n, h |-> <<>>].  The digest of a byte string x is hashSize atoms *)
(* whose first one carries x itself (h |-> <<x>>): an ideal, collision     *)
(* free hash.  Lengths, slices, concatenations and comparisons are then    *)
(* those of the Go code.                                                   *)
(***************************************************************************)
EXTENDS Integers, Sequences, FiniteSets, TLC

VARIABLES
    tree,     \* the SMT behind the SMST: key -> stored value hash (defaultValue: absent)
    latest,   \* history: key -> <<>> (never inserted or deleted) or <<[value, sum]>>
    out       \* the last call and what it returned

vars == <<tree, latest, out>>

---------------------------------------------------------------------------
(* Sizes.  The hasher of the tests is sha256 (32 bytes); the model scales  *)
(* it down.                                                                *)

\* digest size of the tree hasher, in bytes
hashSize == 8

\* size of a path, in bytes
PathSize == 1

\* width of a sum field in the tree: smst.go uses [sumSize]byte with PutUint64
sumSize == 8

\* width of the sum the verifier builds: var hexSum [16]byte
hexSumSize == 16

\* width of the sum field of a sidenode in the proof file: hashSize()+16
sideNodeSumSize == 16

---------------------------------------------------------------------------
(* Bytes *)

B(n) == [b |-> n, h |-> <<>>]

Zeros(n) == [i \in 1..n |-> B(0)]

Last(bz, n) == SubSeq(bz, Len(bz) - n + 1, Len(bz))

DropLast(bz, n) == SubSeq(bz, 1, Len(bz) - n)

\* Go's   a = nil   for a byte slice that may be nil: <<>> is nil, <<bz>> is bz
NilBz == <<>>
Some(bz) == <<bz>>

\* binary.BigEndian.PutUint64 into an n byte array, n = 8
RECURSIVE BigEndianBytes(_, _)
BigEndianBytes(v, n) ==
    IF n = 0 THEN <<>> ELSE BigEndianBytes(v \div 256, n - 1) \o <<B(v % 256)>>

PutUint64(v) == BigEndianBytes(v, 8)

\* binary.BigEndian.Uint64 of the first 8 bytes of bz
RECURSIVE BigEndianValue(_)
BigEndianValue(bz) ==
    IF bz = <<>> THEN 0
    ELSE BigEndianValue(SubSeq(bz, 1, Len(bz) - 1)) * 256 + bz[Len(bz)].b

Uint64(bz) == BigEndianValue(SubSeq(bz, 1, 8))

\* fmt.Sprintf("%016x", sum): sixteen hex digits, most significant first
RECURSIVE HexDigits(_, _)
HexDigits(v, n) ==
    IF n = 0 THEN <<>> ELSE HexDigits(v \div 16, n - 1) \o <<v % 16>>

Sprintf016x(v) == HexDigits(v, 16)

\* hex.DecodeString: two digits to a byte
HexDecodeString(ds) ==
    [i \in 1..(Len(ds) \div 2) |-> B(16 * ds[2 * i - 1] + ds[2 * i])]

\* getPathBit(data, position): bits are numbered from 0, most significant first
getPathBit(data, position) ==
    (data[(position \div 8) + 1].b \div (2 ^ (7 - (position % 8)))) % 2

\* countSetBits(data): every bit of every byte
countSetBits(data) ==
    Cardinality({i \in 0..(Len(data) * 8 - 1) : getPathBit(data, i) = 1})

\* setPathBit(data, position)
setPathBit(data, position) ==
    [data EXCEPT ![(position \div 8) + 1] =
        B(IF getPathBit(data, position) = 1 THEN @.b
          ELSE @.b + 2 ^ (7 - (position % 8)))]

---------------------------------------------------------------------------
(* Hashing and the node encodings *)

\* the digest of a byte string
Hash(x) == <<[b |-> 0, h |-> <<x>>]>> \o [i \in 1..(hashSize - 1) |-> B(0)]

leafPrefix == <<B(0)>>
innerPrefix == <<B(1)>>

\* the value that stands for "no value"
defaultValue == <<>>

\* TreeSpec.digestValue with the default value hasher
digestValue(value) == Hash(value)

\* the encoding of an empty subtree: an all-zero hash and the sum 0
sumPlaceholder == Zeros(hashSize) \o Zeros(sumSize)

\* digestSumLeaf(path, valueDigest, sum): the leaf record and its hash||sum
digestSumLeaf(path, valueHash, sum) ==
    LET value == leafPrefix \o path \o valueHash \o sum
    IN  [hash |-> Hash(value) \o sum, data |-> value]

\* digestSumNode(left, right): the sums are the trailing sumSize bytes
digestSumNode(leftData, rightData) ==
    LET value == innerPrefix \o leftData \o rightData
        sum   == Uint64(Last(leftData, sumSize)) + Uint64(Last(rightData, sumSize))
    IN  [hash |-> Hash(value) \o PutUint64(sum), data |-> value]

\* parseSumLeaf(data, ph): the path, the value digest and the sum of a leaf
\* record; the sum has the width of the verifier's sum argument
parseSumLeaf(data) ==
    LET rest == SubSeq(data, Len(leafPrefix) + 1, Len(data))
        val  == SubSeq(rest, PathSize + 1, Len(rest))
    IN  [path      |-> SubSeq(rest, 1, PathSize),
         valueHash |-> DropLast(val, hexSumSize),
         sum       |-> Last(val, hexSumSize)]

\* hashSumSerialization(spec, data): the hash||sum of a serialized node
hashSumSerialization(data) ==
    IF SubSeq(data, 1, 1) = innerPrefix
    THEN LET w == hashSize + sumSize
             l == SubSeq(data, 2, 1 + w)
             r == SubSeq(data, 2 + w, 1 + 2 * w)
         IN  digestSumNode(l, r).hash
    ELSE Hash(data) \o Last(data, sumSize)

---------------------------------------------------------------------------
(* Keys, values and sums of the runs *)

Keys == {"testKey", "testKey2", "testKey3"}

\* the first byte of the path of each key: 0000 0000, 1000 0000, 1100 0000
PathByte(key) ==
    CASE key = "testKey" -> 0
      [] key = "testKey2" -> 128
      [] key = "testKey3" -> 192

\* ph.Path(key): the digest of the key
Path(key) == <<B(PathByte(key))>> \o Zeros(PathSize - 1)

Values == {<<B(7)>>, <<B(9)>>}

\* the sums the keys are stored with, and the sums claimed to the verifier
Sums == {5, 300}

ClaimedSums == Sums \cup {0}

---------------------------------------------------------------------------
(* The SMT behind the sum tree *)

left == 0

\* the leaf the tree holds for a key
LeafOf(t, key) ==
    digestSumLeaf(Path(key), DropLast(t[key], sumSize), Last(t[key], sumSize))

\* the hash||sum of the subtree holding the keys of S, all of which agree on
\* the first d path bits
RECURSIVE SubtreeHash(_, _, _)
SubtreeHash(t, S, d) ==
    IF S = {} THEN sumPlaceholder
    ELSE IF Cardinality(S) = 1 THEN LeafOf(t, CHOOSE k \in S : TRUE).hash
    ELSE LET L == {k \in S : getPathBit(Path(k), d) = left}
         IN  digestSumNode(SubtreeHash(t, L, d + 1),
                           SubtreeHash(t, S \ L, d + 1)).hash

\* the serialized node of the subtree holding S: nil for an empty subtree
SubtreeData(t, S, d) ==
    IF S = {} THEN NilBz
    ELSE IF Cardinality(S) = 1 THEN Some(LeafOf(t, CHOOSE k \in S : TRUE).data)
    ELSE LET L == {k \in S : getPathBit(Path(k), d) = left}
         IN  Some(digestSumNode(SubtreeHash(t, L, d + 1),
                                SubtreeHash(t, S \ L, d + 1)).data)

Stored(t) == {k \in Keys : t[k] # defaultValue}

SMTRoot(t) == SubtreeHash(t, Stored(t), 0)

SMTGet(t, key) == t[key]

SMTUpdate(t, key, valueHash) == [t EXCEPT ![key] = valueHash]

SMTDelete(t, key) == [t EXCEPT ![key] = defaultValue]

\* SMT.Prove: walk down the path of the key; the sidenodes are the siblings
\* not taken, deepest first
RECURSIVE ProveWalk(_, _, _, _, _, _)
ProveWalk(t, key, S, d, sideNodes, sib) ==
    IF Cardinality(S) <= 1
    THEN [SideNodes |-> sideNodes,
          NonMembershipLeafData |->
              IF S = {} \/ S = {key} THEN NilBz
              ELSE Some(LeafOf(t, CHOOSE k \in S : TRUE).data),
          SiblingData |-> sib]
    ELSE LET L    == {k \in S : getPathBit(Path(k), d) = left}
             mine == IF getPathBit(Path(key), d) = left THEN L ELSE S \ L
             other == S \ mine
         IN  ProveWalk(t, key, mine, d + 1,
                       <<SubtreeHash(t, other, d + 1)>> \o sideNodes,
                       SubtreeData(t, other, d + 1))

SMTProve(t, key) == ProveWalk(t, key, Stored(t), 0, <<>>, NilBz)

\* the key ProveClosest returns on an empty tree: nil
NilKey == ""

\* the paths asked of ProveClosest: 0000 0000, 1001 0000, 1111 1111
QueryPaths ==
    {<<B(0)>> \o Zeros(PathSize - 1), <<B(144)>> \o Zeros(PathSize - 1),
     <<B(255)>> \o Zeros(PathSize - 1)}

\* ProveClosest: walk down the bits of the query path, into the other
\* subtree where the one the bit names is empty, to the leaf that is reached;
\* the key, value digest and sum of that leaf and its proof.  On an empty
\* tree: a nil key, a nil value, the sum 0 and an empty proof.
RECURSIVE ClosestWalk(_, _, _, _, _, _)
ClosestWalk(t, path, S, d, sideNodes, sib) ==
    IF S = {}
    THEN [key |-> NilKey, valueHash |-> defaultValue, sum |-> 0,
          proof |-> [SideNodes |-> <<>>, NonMembershipLeafData |-> NilBz,
                     SiblingData |-> NilBz]]
    ELSE IF Cardinality(S) = 1
    THEN LET k == CHOOSE x \in S : TRUE
         IN  [key |-> k,
              valueHash |-> DropLast(t[k], sumSize),
              sum |-> Uint64(Last(t[k], sumSize)),
              proof |-> [SideNodes |-> sideNodes, NonMembershipLeafData |-> NilBz,
                         SiblingData |-> sib]]
    ELSE LET L     == {k \in S : getPathBit(Path(k), d) = left}
             named == IF getPathBit(path, d) = left THEN L ELSE S \ L
             mine  == IF named = {} THEN S \ named ELSE named
             other == S \ mine
         IN  ClosestWalk(t, path, mine, d + 1,
                         <<SubtreeHash(t, other, d + 1)>> \o sideNodes,
                         SubtreeData(t, other, d + 1))

ProveClosest(t, path) == ClosestWalk(t, path, Stored(t), 0, <<>>, NilBz)

---------------------------------------------------------------------------
(* smst.go *)

\* SMST.Update
Update(t, key, value, sum) ==
    LET valueHash == digestValue(value)
        sumBz     == PutUint64(sum)
    IN  SMTUpdate(t, key, valueHash \o sumBz)

\* SMST.Delete
Delete(t, key) == SMTDelete(t, key)

\* Get as it would be if it returned the stored bytes without cutting the
\* sum off the value digest
Get_KeepsSumBytes(t, key) ==
    LET valueHash == SMTGet(t, key)
    IN  IF valueHash = defaultValue
        THEN [value |-> defaultValue, sum |-> 0, err |-> "nil"]
        ELSE [value |-> valueHash,
              sum   |-> Uint64(Last(valueHash, sumSize)),
              err   |-> "nil"]

\* SMST.Get: the value digest, the sum and the error
Get(t, key) ==
    LET valueHash == SMTGet(t, key)
    IN  IF valueHash = defaultValue
        THEN [value |-> defaultValue, sum |-> 0, err |-> "nil"]
        ELSE [value |-> DropLast(valueHash, sumSize),
              sum   |-> Uint64(Last(valueHash, sumSize)),
              err   |-> "nil"]

\* SMST.Prove
Prove(t, key) == SMTProve(t, key)

\* SMST.Root
Root(t) == SMTRoot(t)

\* Sum as it would be if it decoded the leading bytes of the root
Sum_LeadingBytes(t) ==
    LET digest == SMTRoot(t)
    IN  Uint64(SubSeq(digest, 1, sumSize))

\* SMST.Sum
Sum(t) ==
    LET digest == Root(t)
    IN  Uint64(Last(digest, sumSize))

---------------------------------------------------------------------------
(* Sum proofs *)

\* sanityCheck as it would be without the loop over the sidenode sizes
sanityCheck_NoSizeLoop(proof) ==
    IF \/ Len(proof.SideNodes) > PathSize * 8
       \/ /\ proof.NonMembershipLeafData # NilBz
          /\ Len(proof.NonMembershipLeafData[1]) < Len(leafPrefix) + PathSize
    THEN FALSE
    ELSE IF proof.SiblingData = NilBz \/ Len(proof.SideNodes) = 0
    THEN TRUE
    ELSE proof.SideNodes[1] = hashSumSerialization(proof.SiblingData[1])

\* SparseMerkleSumProof.sanityCheck
sanityCheck(proof) ==
    IF \/ Len(proof.SideNodes) > PathSize * 8
       \/ /\ proof.NonMembershipLeafData # NilBz
          /\ Len(proof.NonMembershipLeafData[1]) < Len(leafPrefix) + PathSize
    THEN FALSE
    ELSE IF \E i \in 1..Len(proof.SideNodes) :
                Len(proof.SideNodes[i]) # hashSize + sideNodeSumSize
    THEN FALSE
    ELSE IF proof.SiblingData = NilBz \/ Len(proof.SideNodes) = 0
    THEN TRUE
    ELSE proof.SideNodes[1] = hashSumSerialization(proof.SiblingData[1])

\* the hashes sanityCheck computes: the sibling data, when it gets that far
sanityCheckCalls(proof) ==
    IF \/ Len(proof.SideNodes) > PathSize * 8
       \/ /\ proof.NonMembershipLeafData # NilBz
          /\ Len(proof.NonMembershipLeafData[1]) < Len(leafPrefix) + PathSize
       \/ \E i \in 1..Len(proof.SideNodes) :
              Len(proof.SideNodes[i]) # hashSize + sideNodeSumSize
       \/ proof.SiblingData = NilBz
       \/ Len(proof.SideNodes) = 0
    THEN <<>>
    ELSE <<"hashSumSerialization">>

\* math.Ceil(float64(n) / float64(8)) as an int
CeilDiv8(n) == (n + 7) \div 8

\* the compact sanity check as it would be without the bit mask length
compactSanityCheck_NoMaskLength(proof) ==
    IF \/ proof.NumSideNodes < 0
       \/ proof.NumSideNodes > PathSize * 8
       \/ /\ proof.NumSideNodes > 0
          /\ Len(proof.SideNodes) # proof.NumSideNodes - countSetBits(proof.BitMask)
    THEN FALSE
    ELSE TRUE

\* SparseCompactMerkleSumProof.sanityCheck
compactSanityCheck(proof) ==
    IF \/ proof.NumSideNodes < 0
       \/ proof.NumSideNodes > PathSize * 8
       \/ Len(proof.BitMask) # CeilDiv8(proof.NumSideNodes)
       \/ /\ proof.NumSideNodes > 0
          /\ Len(proof.SideNodes) # proof.NumSideNodes - countSetBits(proof.BitMask)
    THEN FALSE
    ELSE TRUE

\* node := make([]byte, n); copy(node, src)
MakeCopy(n, src) == [j \in 1..n |-> IF j <= Len(src) THEN src[j] ELSE B(0)]

\* the loop of verifySumProofWithUpdates that recomputes the root, from
\* sidenode i (counted from 0) on
RECURSIVE RecomputeRoot(_, _, _, _)
RecomputeRoot(proof, path, i, currentHash) ==
    IF i >= Len(proof.SideNodes) THEN currentHash
    ELSE LET node == MakeCopy(hashSize + sideNodeSumSize, proof.SideNodes[i + 1])
         IN  IF getPathBit(path, Len(proof.SideNodes) - 1 - i) = left
             THEN RecomputeRoot(proof, path, i + 1, digestSumNode(currentHash, node).hash)
             ELSE RecomputeRoot(proof, path, i + 1, digestSumNode(node, currentHash).hash)

\* the calls of that loop, in order
RecomputeCalls(proof) ==
    [j \in 1..(2 * Len(proof.SideNodes)) |->
        IF j % 2 = 1 THEN "getPathBit" ELSE "digestSumNode"]

\* verifySumProofWithUpdates from "Determine what the leaf hash should be"
\* on; pre is the calls made before
verifyLeafAndRecompute(proof, root, path, value, sum, pre) ==
    IF value = defaultValue
    THEN IF proof.NonMembershipLeafData = NilBz
         THEN [result |-> RecomputeRoot(proof, path, 0, sumPlaceholder) = root,
               err |-> "nil",
               calls |-> pre \o <<"sumPlaceholder">> \o RecomputeCalls(proof)]
         ELSE LET leaf == parseSumLeaf(proof.NonMembershipLeafData[1])
              IN  IF leaf.path = path
                  THEN [result |-> FALSE, err |-> "ErrBadProof",
                        calls |-> pre \o <<"parseSumLeaf">>]
                  ELSE [result |->
                            RecomputeRoot(proof, path, 0,
                                digestSumLeaf(leaf.path, leaf.valueHash, leaf.sum).hash)
                            = root,
                        err |-> "nil",
                        calls |-> pre \o <<"parseSumLeaf", "digestSumLeaf">>
                                      \o RecomputeCalls(proof)]
    ELSE LET valueHash == digestValue(value)
         IN  [result |->
                  RecomputeRoot(proof, path, 0,
                      digestSumLeaf(path, valueHash, sum).hash) = root,
              err |-> "nil",
              calls |-> pre \o <<"digestValue", "digestSumLeaf">>
                            \o RecomputeCalls(proof)]

\* verifySumProofWithUpdates as it would be if the leaf were digested before
\* the proof is checked
verifySumProofWithUpdates_LeafFirst(proof, root, key, value, sum) ==
    LET path == Path(key)
    IN  IF ~sanityCheck(proof)
        THEN [result |-> FALSE, err |-> "ErrBadProof",
              calls |-> <<"Path", "digestValue", "digestSumLeaf", "sanityCheck">>
                            \o sanityCheckCalls(proof)]
        ELSE verifyLeafAndRecompute(proof, root, path, value, sum,
                 <<"Path", "sanityCheck">> \o sanityCheckCalls(proof))

\* verifySumProofWithUpdates: the result, the error and the calls made, in
\* order (the updates are dropped by VerifySumProof)
verifySumProofWithUpdates(proof, root, key, value, sum) ==
    LET path == Path(key)
    IN  IF ~sanityCheck(proof)
        THEN [result |-> FALSE, err |-> "ErrBadProof",
              calls |-> <<"Path", "sanityCheck">> \o sanityCheckCalls(proof)]
        ELSE verifyLeafAndRecompute(proof, root, path, value, sum,
                 <<"Path", "sanityCheck">> \o sanityCheckCalls(proof))

\* the sum VerifySumProof hands to verifySumProofWithUpdates: var hexSum
\* [16]byte; copy(hexSum[16-len(hexBz):], hexBz)
hexSumOf(sum) ==
    LET hexBz == HexDecodeString(Sprintf016x(sum))
    IN  Zeros(hexSumSize - Len(hexBz)) \o hexBz

\* VerifySumProof
VerifySumProof(proof, root, key, value, sum) ==
    LET hexSum == hexSumOf(sum)
        r      == verifySumProofWithUpdates(proof, root, key, value, hexSum)
    IN  IF r.err # "nil"
        THEN [result |-> FALSE, err |-> r.err, calls |-> <<"DecodeString">> \o r.calls]
        ELSE [result |-> r.result, err |-> "nil", calls |-> <<"DecodeString">> \o r.calls]

\* the loop of CompactSumProof, from sidenode i (counted from 0) on
RECURSIVE CompactLoop(_, _, _, _)
CompactLoop(proof, i, bitMask, compactedSideNodes) ==
    IF i >= Len(proof.SideNodes)
    THEN [SideNodes |-> compactedSideNodes, BitMask |-> bitMask]
    ELSE LET node == MakeCopy(hashSize + sideNodeSumSize, proof.SideNodes[i + 1])
         IN  IF node = sumPlaceholder
             THEN CompactLoop(proof, i + 1, setPathBit(bitMask, i), compactedSideNodes)
             ELSE CompactLoop(proof, i + 1, bitMask, Append(compactedSideNodes, node))

EmptyCompactProof ==
    [SideNodes |-> <<>>, NonMembershipLeafData |-> NilBz, BitMask |-> <<>>,
     NumSideNodes |-> 0, SiblingData |-> NilBz]

EmptyProof ==
    [SideNodes |-> <<>>, NonMembershipLeafData |-> NilBz, SiblingData |-> NilBz]

\* CompactSumProof
CompactSumProof(proof) ==
    IF ~sanityCheck(proof)
    THEN [proof |-> EmptyCompactProof, err |-> "ErrBadProof"]
    ELSE LET c == CompactLoop(proof, 0, Zeros(CeilDiv8(Len(proof.SideNodes))), <<>>)
         IN  [proof |-> [SideNodes             |-> c.SideNodes,
                         NonMembershipLeafData |-> proof.NonMembershipLeafData,
                         BitMask               |-> c.BitMask,
                         NumSideNodes          |-> Len(proof.SideNodes),
                         SiblingData           |-> proof.SiblingData],
              err |-> "nil"]

\* the loop of DecompactSumProof as it would be without position++
RECURSIVE DecompactLoop_NoAdvance(_, _, _, _)
DecompactLoop_NoAdvance(proof, i, position, decompactedSideNodes) ==
    IF i >= proof.NumSideNodes
    THEN [SideNodes |-> decompactedSideNodes, err |-> "nil"]
    ELSE IF getPathBit(proof.BitMask, i) = 1
    THEN DecompactLoop_NoAdvance(proof, i + 1, position,
                                 Append(decompactedSideNodes, sumPlaceholder))
    ELSE IF position >= Len(proof.SideNodes)
    THEN [SideNodes |-> decompactedSideNodes, err |-> "panic"]
    ELSE DecompactLoop_NoAdvance(proof, i + 1, position,
                                 Append(decompactedSideNodes,
                                        proof.SideNodes[position + 1]))

\* the loop of DecompactSumProof, from position i of the bit mask on; an
\* index beyond proof.BitMask or beyond proof.SideNodes is a run-time panic
RECURSIVE DecompactLoop(_, _, _, _)
DecompactLoop(proof, i, position, decompactedSideNodes) ==
    IF i >= proof.NumSideNodes
    THEN [SideNodes |-> decompactedSideNodes, err |-> "nil"]
    ELSE IF i \div 8 >= Len(proof.BitMask)
    THEN [SideNodes |-> decompactedSideNodes, err |-> "panic"]
    ELSE IF getPathBit(proof.BitMask, i) = 1
    THEN DecompactLoop(proof, i + 1, position,
                       Append(decompactedSideNodes, sumPlaceholder))
    ELSE IF position >= Len(proof.SideNodes)
    THEN [SideNodes |-> decompactedSideNodes, err |-> "panic"]
    ELSE DecompactLoop(proof, i + 1, position + 1,
                       Append(decompactedSideNodes, proof.SideNodes[position + 1]))

\* DecompactSumProof
DecompactSumProof(proof) ==
    IF ~compactSanityCheck(proof)
    THEN [proof |-> EmptyProof, err |-> "ErrBadProof"]
    ELSE LET d == DecompactLoop(proof, 0, 0, <<>>)
         IN  IF d.err # "nil"
             THEN [proof |-> EmptyProof, err |-> d.err]
             ELSE [proof |-> [SideNodes             |-> d.SideNodes,
                              NonMembershipLeafData |-> proof.NonMembershipLeafData,
                              SiblingData           |-> proof.SiblingData],
                   err |-> "nil"]

\* VerifyCompactSumProof
VerifyCompactSumProof(proof, root, key, value, sum) ==
    LET d == DecompactSumProof(proof)
    IN  IF d.err # "nil"
        THEN [result |-> FALSE, err |-> d.err, calls |-> <<>>]
        ELSE VerifySumProof(d.proof, root, key, value, sum)

---------------------------------------------------------------------------
(* The sum tree in use: updates, deletions, reads, and proofs that are     *)
(* generated by the tree and verified against its root.                    *)

NoCall == [op |-> "none"]

Init ==
    /\ tree = [k \in Keys |-> defaultValue]
    /\ latest = [k \in Keys |-> <<>>]
    /\ out = NoCall

CallUpdate(key, value, sum) ==
    /\ tree' = Update(tree, key, value, sum)
    /\ latest' = [latest EXCEPT ![key] = <<[value |-> value, sum |-> sum]>>]
    /\ out' = [op |-> "Update", key |-> key, value |-> value, sum |-> sum,
               prev |-> latest[key], sumBefore |-> Sum(tree)]

CallDelete(key) ==
    /\ tree' = Delete(tree, key)
    /\ latest' = [latest EXCEPT ![key] = <<>>]
    /\ out' = [op |-> "Delete", key |-> key, prev |-> latest[key],
               sumBefore |-> Sum(tree)]

CallGet(key) ==
    LET r == Get(tree, key)
    IN  /\ out' = [op |-> "Get", key |-> key, value |-> r.value, sum |-> r.sum,
                   err |-> r.err, rootBefore |-> Root(tree)]
        /\ UNCHANGED <<tree, latest>>

\* Prove(key), then VerifySumProof of that proof against Root() for a
\* claimed value and sum
CallProveAndVerify(key, value, sum) ==
    LET proof == Prove(tree, key)
        r     == VerifySumProof(proof, Root(tree), key, value, sum)
    IN  /\ out' = [op |-> "ProveAndVerify", key |-> key, value |-> value, sum |-> sum,
                   result |-> r.result, err |-> r.err,
                   calls |-> r.calls]
        /\ UNCHANGED <<tree, latest>>

\* ProveClosest(path), then VerifySumProof of what it returned against
\* Root().  The verifier digests the value it is given, so it is given the
\* value whose digest ProveClosest returned (nil on an empty tree).
CallProveClosestAndVerify(path) ==
    LET c == ProveClosest(tree, path)
        value == IF c.key = NilKey THEN defaultValue ELSE latest[c.key][1].value
        r == VerifySumProof(c.proof, Root(tree), c.key, value, c.sum)
    IN  /\ out' = [op |-> "ProveClosest", path |-> path, key |-> c.key,
                   value |-> c.valueHash, sum |-> c.sum, proof |-> c.proof,
                   result |-> r.result, err |-> r.err]
        /\ UNCHANGED <<tree, latest>>

Next ==
    \/ \E key \in Keys, value \in Values, sum \in Sums : CallUpdate(key, value, sum)
    \/ \E key \in Keys : CallDelete(key)
    \/ \E key \in Keys : CallGet(key)
    \/ \E key \in Keys, value \in Values \cup {defaultValue}, sum \in ClaimedSums :
           CallProveAndVerify(key, value, sum)
    \/ \E path \in QueryPaths : CallProveClosestAndVerify(path)

Spec == Init /\ [][Next]_vars

---------------------------------------------------------------------------
(* Properties of the sum tree in use *)

\* the key was stored with exactly the claimed value and sum
ClaimIsStored == latest[out.key] = <<[value |-> out.value, sum |-> out.sum]>>

\* C1: completeness.  After any sequence of Update and Delete, the proof
\* Prove(k) of a key whose latest operation was Update(k, v, s) verifies
\* against Root() for (k, v, s): VerifySumProof returns true and no error.
C1_Completeness ==
    (out.op = "ProveAndVerify" /\ ClaimIsStored) => (out.result = TRUE /\ out.err = "nil")

\* C2: non-membership.  For a key that is absent from the tree, Prove(k)
\* verifies against Root() for (k, defaultValue, 0); with a nonzero claimed
\* sum (and defaultValue), or with a non-default value, it does not verify.
C2_NonMembership ==
    (out.op = "ProveAndVerify" /\ latest[out.key] = <<>>) =>
        /\ (out.value = defaultValue /\ out.sum = 0) => out.result = TRUE
        /\ (out.value = defaultValue /\ out.sum # 0) => out.result = FALSE
        /\ out.value # defaultValue => out.result = FALSE

\* C3: a wrong claim is not a malformed proof.  For the proof Prove(k) of a
\* stored (k, v, s), verifying a different value or a different sum returns
\* false with a nil error, not ErrBadProof.
C3_WrongClaimIsNotBadProof ==
    (out.op = "ProveAndVerify" /\ latest[out.key] # <<>> /\ ~ClaimIsStored) =>
        (out.result = FALSE /\ out.err = "nil")

RECURSIVE TotalOf(_, _)
TotalOf(l, S) ==
    IF S = {} THEN 0
    ELSE LET k == CHOOSE x \in S : TRUE
         IN  (IF l[k] = <<>> THEN 0 ELSE l[k][1].sum) + TotalOf(l, S \ {k})

\* C9: sum additivity.  After any sequence of Update and Delete, Sum() is the
\* total of the sums of the keys stored, and an Update that changes the sum
\* of an existing key from s to s' changes Sum() by exactly s' - s.
C9_SumAdditivity ==
    /\ Sum(tree) = TotalOf(latest, Keys)
    /\ (out.op = "Update" /\ out.prev # <<>>) =>
           Sum(tree) - out.sumBefore = out.sum - out.prev[1].sum

\* a key that was stored with another sum has been updated in a tree that
\* holds every key
C9_Witness ==
    /\ out.op = "Update"
    /\ out.prev # <<>>
    /\ out.prev[1].sum # out.sum
    /\ Stored(tree) = Keys

\* C10: Get.  Get(k) returns (digest(v), s) and no error when the latest
\* operation on k was Update(k, v, s), and (defaultValue, 0) and no error
\* when k was never inserted or was deleted; Get leaves Root() as it was.
C10_GetContract ==
    out.op = "Get" =>
        /\ out.err = "nil"
        /\ latest[out.key] # <<>> =>
               /\ out.value = digestValue(latest[out.key][1].value)
               /\ out.sum = latest[out.key][1].sum
        /\ latest[out.key] = <<>> =>
               /\ out.value = defaultValue
               /\ out.sum = 0
        /\ Root(tree) = out.rootBefore
        /\ Sum(tree) = Uint64(Last(out.rootBefore, sumSize))

\* Get has returned the digest and the two-byte sum of a stored key, and
\* another key has been deleted before
C10_Witness ==
    /\ out.op = "Get"
    /\ latest[out.key] # <<>>
    /\ out.sum = 300
    /\ \E k \in Keys : latest[k] = <<>>

\* ProveClosest returned this key with its value digest, its sum and an
\* empty proof, and the proof verified against Root()
ClosestIs(key, valueHash, sum) ==
    /\ out.key = key
    /\ out.value = valueHash
    /\ out.sum = sum
    /\ out.proof = EmptyProof
    /\ out.result = TRUE
    /\ out.err = "nil"

\* C11: closest key, edge cases.  On an empty tree ProveClosest(path)
\* returns a nil key, a nil value, the sum 0 and an empty proof that verifies
\* against Root(); on a tree of exactly one leaf it returns, for every query
\* path, the key, the value digest and the sum of that leaf with an empty
\* proof that verifies against Root().
C11_ClosestEdgeCases ==
    out.op = "ProveClosest" =>
        /\ Stored(tree) = {} => ClosestIs(NilKey, defaultValue, 0)
        /\ \A k \in Keys :
               Stored(tree) = {k} =>
                   ClosestIs(k, digestValue(latest[k][1].value), latest[k][1].sum)

---------------------------------------------------------------------------
(* The proof functions on proofs that come from anywhere: the verifier,    *)
(* the compactor and the decompactor are pure functions of their inputs.   *)

\* sidenodes of the size the sanity check asks for
NodeA == Hash(<<B(1)>>) \o Zeros(sideNodeSumSize - sumSize) \o PutUint64(5)
NodeB == Hash(<<B(2)>>) \o Zeros(sideNodeSumSize - sumSize) \o PutUint64(300)
NodeZ == Zeros(hashSize + sideNodeSumSize)

\* a sidenode as long as Root(), and one of a single byte
NodeR == Hash(<<B(1)>>) \o PutUint64(5)
NodeShort == <<B(1)>>

\* a tree to take a root and a leaf from
SampleTree ==
    Update(Update([k \in Keys |-> defaultValue],
                  "testKey2", <<B(7)>>, 5),
           "testKey3", <<B(9)>>, 300)

SampleLeafData == LeafOf(SampleTree, "testKey2").data

ForgedSideNodes ==
    { <<>>, <<NodeA>>, <<NodeA, NodeB>>, <<NodeB, NodeA>>, <<NodeZ, NodeA>>,
      <<NodeR>>, <<NodeA, NodeShort>>,
      [i \in 1..(PathSize * 8) |-> NodeA],
      [i \in 1..(PathSize * 8 + 1) |-> NodeA] }

ForgedLeafData == {NilBz, Some(<<B(0)>>), Some(SampleLeafData)}

ForgedSiblingData == {NilBz, Some(SampleLeafData)}

ForgedProofs ==
    [SideNodes : ForgedSideNodes,
     NonMembershipLeafData : ForgedLeafData,
     SiblingData : ForgedSiblingData]

ForgedRoots == {sumPlaceholder, Root(SampleTree)}

ForgedBitMasks ==
    { <<>>, <<B(0)>>, <<B(128)>>, <<B(64)>>, <<B(160)>>, <<B(1)>>, <<B(255)>>,
      <<B(0), B(0)>>, <<B(128), B(0)>> }

ForgedNumSideNodes == {-1, 0, 1, 2, 3, PathSize * 8, PathSize * 8 + 1}

ForgedCompactSideNodes ==
    { <<>>, <<NodeA>>, <<NodeA, NodeB>>, <<NodeA, NodeB, NodeA>>,
      [i \in 1..(PathSize * 8) |-> NodeA] }

ForgedCompactProofs ==
    [SideNodes : ForgedCompactSideNodes,
     NonMembershipLeafData : {NilBz, Some(SampleLeafData)},
     BitMask : ForgedBitMasks,
     NumSideNodes : ForgedNumSideNodes,
     SiblingData : {NilBz}]

CallVerifySumProof(proof, root, key, value, sum) ==
    LET r == VerifySumProof(proof, root, key, value, sum)
    IN  /\ out' = [op |-> "VerifySumProof", proof |-> proof, key |-> key,
                   value |-> value, sum |-> sum,
                   result |-> r.result, err |-> r.err, calls |-> r.calls]
        /\ UNCHANGED <<tree, latest>>

CallCompactSumProof(proof) ==
    LET r == CompactSumProof(proof)
    IN  /\ out' = [op |-> "CompactSumProof", proof |-> proof,
                   compact |-> r.proof, err |-> r.err]
        /\ UNCHANGED <<tree, latest>>

\* from: the proof the compact proof was compacted from, nil for a forged one
CallDecompactSumProof(compact, from) ==
    LET r == DecompactSumProof(compact)
    IN  /\ out' = [op |-> "DecompactSumProof", compact |-> compact, from |-> from,
                   proof |-> r.proof, err |-> r.err]
        /\ UNCHANGED <<tree, latest>>

CallVerifyCompactSumProof(compact, root, key, value, sum) ==
    LET r == VerifyCompactSumProof(compact, root, key, value, sum)
    IN  /\ out' = [op |-> "VerifyCompactSumProof", compact |-> compact, key |-> key,
                   value |-> value, sum |-> sum,
                   result |-> r.result, err |-> r.err]
        /\ UNCHANGED <<tree, latest>>

\* The functions are pure: a run is one call on one input, or a compaction
\* followed by the decompaction of what it returned.
NextProof ==
    \/ /\ out = NoCall
       /\ \E proof \in ForgedProofs, root \in ForgedRoots, key \in Keys,
             value \in {defaultValue, <<B(7)>>}, sum \in {0, 5} :
              CallVerifySumProof(proof, root, key, value, sum)
    \/ /\ out = NoCall
       /\ \E proof \in ForgedProofs : CallCompactSumProof(proof)
    \/ /\ out.op = "CompactSumProof"
       /\ out.err = "nil"
       /\ CallDecompactSumProof(out.compact, Some(out.proof))
    \/ /\ out = NoCall
       /\ \E compact \in ForgedCompactProofs : CallDecompactSumProof(compact, NilBz)
    \/ /\ out = NoCall
       /\ \E compact \in ForgedCompactProofs, key \in {"testKey", "testKey2"},
             value \in {defaultValue, <<B(7)>>} :
              CallVerifyCompactSumProof(compact, sumPlaceholder, key, value, 0)

SpecProof == Init /\ [][NextProof]_vars

---------------------------------------------------------------------------
(* Properties of the proof functions *)

\* the proof is one the sanity check is to reject: too many sidenodes, a
\* sidenode that has not the length the check asks for, leaf data shorter
\* than a prefix and a path, or sibling data that does not hash to the
\* first sidenode
Malformed(proof) ==
    \/ Len(proof.SideNodes) > PathSize * 8
    \/ \E i \in 1..Len(proof.SideNodes) :
           Len(proof.SideNodes[i]) # hashSize + sideNodeSumSize
    \/ /\ proof.NonMembershipLeafData # NilBz
       /\ Len(proof.NonMembershipLeafData[1]) < Len(leafPrefix) + PathSize
    \/ /\ proof.SiblingData # NilBz
       /\ Len(proof.SideNodes) > 0
       /\ hashSumSerialization(proof.SiblingData[1]) # proof.SideNodes[1]

ClearBits(compact) ==
    Cardinality({i \in 0..(compact.NumSideNodes - 1) :
                     getPathBit(compact.BitMask, i) = 0})

\* C5: no crash on a compact proof.  DecompactSumProof and
\* VerifyCompactSumProof return ErrBadProof or complete without an index out
\* of range; a compact proof that passes the compact sanity check has no
\* more clear bits among its first NumSideNodes mask positions than it has
\* sidenodes.
C5_NoCrashOnCompactProofs ==
    (out.op \in {"DecompactSumProof", "VerifyCompactSumProof"}) =>
        /\ out.err # "panic"
        /\ compactSanityCheck(out.compact) =>
               ClearBits(out.compact) <= Len(out.compact.SideNodes)

\* C6: round trip.  For a proof p that passes its sanity check,
\* DecompactSumProof(CompactSumProof(p)) succeeds and gives p back: the same
\* sidenodes in the same order, the same non-membership leaf data, the same
\* sibling data.
C6_RoundTrip ==
    (out.op = "DecompactSumProof" /\ out.from # NilBz) =>
        /\ out.err = "nil"
        /\ out.proof.SideNodes = out.from[1].SideNodes
        /\ out.proof.NonMembershipLeafData = out.from[1].NonMembershipLeafData
        /\ out.proof.SiblingData = out.from[1].SiblingData

\* a proof of two different sidenodes and leaf data has gone through
\* CompactSumProof and DecompactSumProof
C6_Witness ==
    /\ out.op = "DecompactSumProof"
    /\ out.from # NilBz
    /\ out.from[1].SideNodes = <<NodeB, NodeA>>
    /\ out.from[1].NonMembershipLeafData # NilBz

\* the compact proof got past the compact sanity check
Accepted == out.op = "DecompactSumProof" /\ out.err # "ErrBadProof"

\* the smallest number of bytes that hold n bits
IsCeilDiv8(m, n) == m * 8 >= n /\ (m = 0 \/ (m - 1) * 8 < n)

\* C7 as claimed: a compact proof that the compact sanity check accepts has
\* 0 <= NumSideNodes <= path bits, a bit mask of ceil(NumSideNodes / 8)
\* bytes, and NumSideNodes minus the set bits of the mask sidenodes, for
\* every NumSideNodes, 0 included.
C7_CompactSanityForEveryCount ==
    Accepted =>
        /\ 0 <= out.compact.NumSideNodes
        /\ out.compact.NumSideNodes <= PathSize * 8
        /\ IsCeilDiv8(Len(out.compact.BitMask), out.compact.NumSideNodes)
        /\ Len(out.compact.SideNodes) =
               out.compact.NumSideNodes - countSetBits(out.compact.BitMask)

\* C7 as amended: the count of the sidenodes is checked only when
\* NumSideNodes > 0; with NumSideNodes = 0 any list of sidenodes is accepted.
C7_CompactSanityForPositiveCount ==
    Accepted =>
        /\ 0 <= out.compact.NumSideNodes
        /\ out.compact.NumSideNodes <= PathSize * 8
        /\ IsCeilDiv8(Len(out.compact.BitMask), out.compact.NumSideNodes)
        /\ out.compact.NumSideNodes > 0 =>
               Len(out.compact.SideNodes) =
                   out.compact.NumSideNodes - countSetBits(out.compact.BitMask)

\* a compact proof of three positions, two of them placeholders, has been
\* accepted
C7_Witness ==
    /\ Accepted
    /\ out.compact.NumSideNodes = 3
    /\ countSetBits(out.compact.BitMask) = 2
    /\ out.err = "nil"

HashCalls ==
    {"hashSumSerialization", "digestValue", "digestSumLeaf", "digestSumNode"}

\* the calls that digest a value, a leaf or a node, or that read the path
LeafAndNodeCalls ==
    {"sumPlaceholder", "parseSumLeaf", "digestValue", "digestSumLeaf",
     "getPathBit", "digestSumNode"}

\* C8 as claimed: the sanity check is the first step of VerifySumProof; for
\* a proof that fails it, (false, ErrBadProof) is returned and, before that,
\* no hash is computed and no path is derived from the key.
C8_NothingBeforeSanityCheck ==
    (out.op = "VerifySumProof" /\ ~sanityCheck(out.proof)) =>
        /\ out.result = FALSE
        /\ out.err = "ErrBadProof"
        /\ \A i \in 1..Len(out.calls) :
               out.calls[i] \notin HashCalls \cup {"Path"}

\* C8 as amended: the path is derived from the key before the sanity check,
\* and the check hashes the sibling data when it gets that far; the check
\* comes before every digest of a value, a leaf or a node and before every
\* read of a path bit, and for a proof that fails it none of these happens
\* before (false, ErrBadProof) is returned.
C8_SanityCheckBeforeLeafAndNodes ==
    out.op = "VerifySumProof" =>
        /\ \E s \in 1..Len(out.calls) :
               /\ out.calls[s] = "sanityCheck"
               /\ \A i \in 1..s : out.calls[i] \notin LeafAndNodeCalls
        /\ ~sanityCheck(out.proof) =>
               /\ out.result = FALSE
               /\ out.err = "ErrBadProof"
               /\ \A i \in 1..Len(out.calls) : out.calls[i] \notin LeafAndNodeCalls

\* a proof of one sidenode more than the path has bits has been verified
C8_Witness ==
    /\ out.op = "VerifySumProof"
    /\ Len(out.proof.SideNodes) = PathSize * 8 + 1
    /\ out.err = "ErrBadProof"
    /\ out.value # defaultValue

\* C12: one width for the sum field.  The verifier treats a sum field as 8
\* bytes, big-endian: the sanity check accepts a sidenode exactly when it is
\* digestSize + 8 bytes long, the length of Root(), and the sum that
\* VerifySumProof puts into the membership leaf is the 8-byte encoding that
\* Update appends to the value digest and that Get and Sum decode.
C12_OneSumWidth ==
    (/\ out.op = "VerifySumProof"
     /\ Len(out.proof.SideNodes) <= PathSize * 8
     /\ out.proof.NonMembershipLeafData = NilBz
     /\ out.proof.SiblingData = NilBz) =>
        /\ Len(Root(tree)) = hashSize + sumSize
        /\ out.err # "ErrBadProof" <=>
               \A i \in 1..Len(out.proof.SideNodes) :
                   Len(out.proof.SideNodes[i]) = Len(Root(tree))
        /\ hexSumOf(out.sum) = PutUint64(out.sum)
        /\ Uint64(hexSumOf(out.sum)) = out.sum

====
